---------------------------- MODULE Spec2Model ----------------------------
(***************************************************************************)
(* A model of the hybrid recommender (src/src/model.py), its cursor codec  *)
(* (src/src/utils.py) and the /recommend endpoint (src/src/app.py).        *)
(*                                                                         *)
(* Conventions                                                             *)
(*  - A Python str is a sequence of code points, a bytes object a sequence *)
(*    of byte values, a base64 text a sequence of symbols: 0..63 are the   *)
(*    sextet values of the alphabet, Pad is '=', Junk is any character     *)
(*    outside the alphabet.                                                *)
(*  - A Python float is a record: NaN, or an exact fraction n/d in lowest  *)
(*    terms.  The rounding error of binary floating point is not modelled. *)
(*  - Indices into the catalog are 0-based as in the source; row i of a    *)
(*    frame is element i+1 of the sequence that models it.                 *)
(***************************************************************************)
EXTENDS Integers, Sequences, FiniteSets, TLC

(***************************************************************************)
(* Bounds of the model                                                     *)
(***************************************************************************)
MaxK == 2
MaxOffset == 2
MaxSeed == 1
MaxCursorOffset == 2

(***************************************************************************)
(* Floats                                                                  *)
(***************************************************************************)
\* A list a comprehension builds, as a sequence.
ToList(f) == f \o <<>>

Abs(x) == IF x < 0 THEN -x ELSE x

RECURSIVE GCD(_, _)
GCD(a, b) == IF b = 0 THEN a ELSE GCD(b, a % b)

NaN == [nan |-> TRUE, n |-> 0, d |-> 1]

Rat(n, d) ==
    LET g == GCD(Abs(n), Abs(d))
        s == IF d < 0 THEN -1 ELSE 1
    IN  [nan |-> FALSE, n |-> (s * n) \div g, d |-> (s * d) \div g]

Float(i) == Rat(i, 1)

FAdd(x, y) == IF x.nan \/ y.nan THEN NaN ELSE Rat(x.n * y.d + y.n * x.d, x.d * y.d)
FSub(x, y) == IF x.nan \/ y.nan THEN NaN ELSE Rat(x.n * y.d - y.n * x.d, x.d * y.d)
FMul(x, y) == IF x.nan \/ y.nan THEN NaN ELSE Rat(x.n * y.n, x.d * y.d)
FDiv(x, y) == IF x.nan \/ y.nan THEN NaN ELSE Rat(x.n * y.d, x.d * y.n)
FNeg(x)    == IF x.nan THEN NaN ELSE Rat(-x.n, x.d)

\* Every comparison with NaN is false, NaN == NaN included.
FLt(x, y) == ~x.nan /\ ~y.nan /\ x.n * y.d < y.n * x.d
FLe(x, y) == ~x.nan /\ ~y.nan /\ x.n * y.d <= y.n * x.d
FEq(x, y) == ~x.nan /\ ~y.nan /\ x.n * y.d = y.n * x.d
FGt(x, y) == FLt(y, x)
FGe(x, y) == FLe(y, x)

\* round(x, 3): the nearest multiple of 1/1000; round(nan, 3) is nan.  An
\* exact tie goes to the even neighbour.
Round3(x) ==
    IF x.nan THEN NaN
    ELSE LET t  == 1000 * x.n
             q  == t \div x.d
             r2 == 2 * (t - q * x.d)
             up == r2 > x.d \/ (r2 = x.d /\ q % 2 = 1)
         IN  Rat(IF up THEN q + 1 ELSE q, 1000)

(***************************************************************************)
(* Strings                                                                 *)
(***************************************************************************)
Delim == 124

RECURSIVE StrLt(_, _)
\* str.__lt__: lexicographic by code point.
StrLt(s, t) ==
    IF t = <<>> THEN FALSE
    ELSE IF s = <<>> THEN TRUE
    ELSE IF Head(s) # Head(t) THEN Head(s) < Head(t)
    ELSE StrLt(Tail(s), Tail(t))

RECURSIVE NatToStr(_)
NatToStr(n) == IF n < 10 THEN <<48 + n>> ELSE NatToStr(n \div 10) \o <<48 + (n % 10)>>

\* str(int), as the f-string formats offset and seed.
IntToStr(i) == IF i < 0 THEN <<45>> \o NatToStr(-i) ELSE NatToStr(i)

RECURSIVE Split(_, _)
\* str.split(sep) for a one-character separator.
Split(s, sep) ==
    IF \A i \in 1..Len(s) : s[i] # sep THEN <<s>>
    ELSE LET i == CHOOSE j \in 1..Len(s) : s[j] = sep /\ \A m \in 1..(j - 1) : s[m] # sep
         IN  <<SubSeq(s, 1, i - 1)>> \o Split(SubSeq(s, i + 1, Len(s)), sep)

\* The white space int() strips, below U+1680.
IsSpace(c) == c \in {9, 10, 11, 12, 13, 32, 133, 160}
IsDigit(c) == c \in 48..57

RECURSIVE Strip(_)
Strip(s) ==
    IF s = <<>> THEN s
    ELSE IF IsSpace(Head(s)) THEN Strip(Tail(s))
    ELSE IF IsSpace(s[Len(s)]) THEN Strip(SubSeq(s, 1, Len(s) - 1))
    ELSE s

RECURSIVE DigitsValue(_, _)
\* The value of a run of ASCII digits and single underscores between them.
DigitsValue(s, acc) ==
    IF s = <<>> THEN acc
    ELSE IF Head(s) = 95 THEN DigitsValue(Tail(s), acc)
    ELSE DigitsValue(Tail(s), 10 * acc + (Head(s) - 48))

\* int(s): optional surrounding whitespace, an optional sign, then decimal
\* digits, single underscores allowed between digits.  (Non-ASCII decimal
\* digits, which int() also accepts, are outside the alphabet explored.)
ParseInt(s) ==
    LET t    == Strip(s)
        sgn  == t # <<>> /\ Head(t) \in {43, 45}
        body == IF sgn THEN Tail(t) ELSE t
        wellFormed ==
            /\ body # <<>>
            /\ \A i \in 1..Len(body) : IsDigit(body[i]) \/ body[i] = 95
            /\ IsDigit(body[1]) /\ IsDigit(body[Len(body)])
            /\ \A i \in 1..(Len(body) - 1) : ~(body[i] = 95 /\ body[i + 1] = 95)
    IN  IF wellFormed
        THEN [ok |-> TRUE,
              val |-> IF sgn /\ Head(t) = 45 THEN -DigitsValue(body, 0)
                      ELSE DigitsValue(body, 0)]
        ELSE [ok |-> FALSE, val |-> 0]

(***************************************************************************)
(* UTF-8 and URL-safe base64: str.encode, bytes.decode, base64 module      *)
(***************************************************************************)
Pad == 64
Junk == 65

\* str.encode(): UTF-8.  (A lone surrogate, which makes encode() raise, is
\* outside the identifiers explored.)
Utf8EncodeChar(c) ==
    IF c < 128 THEN <<c>>
    ELSE IF c < 2048 THEN <<192 + (c \div 64), 128 + (c % 64)>>
    ELSE IF c < 65536 THEN <<224 + (c \div 4096), 128 + ((c \div 64) % 64), 128 + (c % 64)>>
    ELSE <<240 + (c \div 262144), 128 + ((c \div 4096) % 64), 128 + ((c \div 64) % 64),
           128 + (c % 64)>>

RECURSIVE Utf8Encode(_)
Utf8Encode(s) == IF s = <<>> THEN <<>> ELSE Utf8EncodeChar(Head(s)) \o Utf8Encode(Tail(s))

IsCont(b) == b \in 128..191

RECURSIVE Utf8Decode(_, _)
\* bytes.decode(): strict UTF-8; ok is FALSE where decode() raises
\* UnicodeDecodeError.
Utf8Decode(b, out) ==
    IF b = <<>> THEN [ok |-> TRUE, str |-> out]
    ELSE LET b1 == b[1] n == Len(b) IN
         IF b1 < 128 THEN Utf8Decode(Tail(b), Append(out, b1))
         ELSE IF b1 \in 194..223 /\ n >= 2 /\ IsCont(b[2])
              THEN Utf8Decode(SubSeq(b, 3, n), Append(out, (b1 % 32) * 64 + (b[2] % 64)))
         ELSE IF /\ b1 \in 224..239 /\ n >= 3 /\ IsCont(b[2]) /\ IsCont(b[3])
                 /\ (b1 = 224 => b[2] >= 160) /\ (b1 = 237 => b[2] <= 159)
              THEN Utf8Decode(SubSeq(b, 4, n),
                              Append(out, (b1 % 16) * 4096 + (b[2] % 64) * 64 + (b[3] % 64)))
         ELSE IF /\ b1 \in 240..244 /\ n >= 4 /\ IsCont(b[2]) /\ IsCont(b[3]) /\ IsCont(b[4])
                 /\ (b1 = 240 => b[2] >= 144) /\ (b1 = 244 => b[2] <= 143)
              THEN Utf8Decode(SubSeq(b, 5, n),
                              Append(out, (b1 % 8) * 262144 + (b[2] % 64) * 4096
                                          + (b[3] % 64) * 64 + (b[4] % 64)))
         ELSE [ok |-> FALSE, str |-> <<>>]

RECURSIVE B64Encode(_)
\* base64.urlsafe_b64encode: three bytes to four sextets, '=' padding.
B64Encode(b) ==
    IF b = <<>> THEN <<>>
    ELSE IF Len(b) = 1 THEN <<(b[1] \div 4), (b[1] % 4) * 16, Pad, Pad>>
    ELSE IF Len(b) = 2
         THEN <<(b[1] \div 4), (b[1] % 4) * 16 + (b[2] \div 16), (b[2] % 16) * 4, Pad>>
    ELSE <<(b[1] \div 4), (b[1] % 4) * 16 + (b[2] \div 16), (b[2] % 16) * 4 + (b[3] \div 64),
           (b[3] % 64)>> \o B64Encode(SubSeq(b, 4, Len(b)))

RECURSIVE B64Scan(_, _, _, _, _)
\* binascii.a2b_base64 as base64.urlsafe_b64decode calls it (not strict):
\* characters outside the alphabet are skipped, a complete pad sequence ends
\* the input, and data left in an incomplete quad is binascii.Error.
B64Scan(t, quad_pos, leftchar, pads, out) ==
    IF t = <<>> THEN [ok |-> quad_pos = 0, bytes |-> out]
    ELSE LET c == Head(t) IN
         IF c = Pad
         THEN IF quad_pos >= 2 /\ quad_pos + pads + 1 >= 4
              THEN [ok |-> TRUE, bytes |-> out]
              ELSE B64Scan(Tail(t), quad_pos, leftchar,
                           IF quad_pos >= 2 THEN pads + 1 ELSE pads, out)
         ELSE IF c \notin 0..63 THEN B64Scan(Tail(t), quad_pos, leftchar, pads, out)
         ELSE IF quad_pos = 0 THEN B64Scan(Tail(t), 1, c, 0, out)
         ELSE IF quad_pos = 1
              THEN B64Scan(Tail(t), 2, (c % 16), 0, Append(out, leftchar * 4 + (c \div 16)))
         ELSE IF quad_pos = 2
              THEN B64Scan(Tail(t), 3, (c % 4), 0, Append(out, leftchar * 16 + (c \div 4)))
         ELSE B64Scan(Tail(t), 0, 0, 0, Append(out, leftchar * 64 + c))

B64Decode(t) == B64Scan(t, 0, 0, 0, <<>>)

(***************************************************************************)
(* The cursor codec (src/src/utils.py)                                     *)
(***************************************************************************)
\* The ValueError("Invalid cursor format") of decode_cursor.
InvalidCursor == [ok |-> FALSE, product_id |-> <<>>, offset |-> 0, seed |-> 0]

EncodeCursor(product_id, offset, seed) ==
    LET cursor_str == product_id \o <<Delim>> \o IntToStr(offset) \o <<Delim>> \o IntToStr(seed)
    IN  B64Encode(Utf8Encode(cursor_str))

\* decode_cursor: any exception inside becomes ValueError.
DecodeCursor(cursor) ==
    LET raw == B64Decode(cursor) IN
    IF ~raw.ok THEN InvalidCursor
    ELSE LET decoded == Utf8Decode(raw.bytes, <<>>) IN
         IF ~decoded.ok THEN InvalidCursor
         ELSE LET parts == Split(decoded.str, Delim) IN
              IF Len(parts) # 3 THEN InvalidCursor
              ELSE LET off == ParseInt(parts[2])
                       sd  == ParseInt(parts[3])
                   IN  IF ~off.ok \/ ~sd.ok THEN InvalidCursor
                       ELSE [ok |-> TRUE, product_id |-> parts[1],
                             offset |-> off.val, seed |-> sd.val]

(***************************************************************************)
(* The fitted state of the Recommender (src/src/model.py)                  *)
(***************************************************************************)
VARIABLES
    fitted,              \* fit() has run and the pickled model is being served
    catalog_df,          \* the catalog rows, in frame order
    interactions_df,     \* the interaction log fit() was given (fit() keeps no copy)
    product_vectors,     \* one unit vector per row
    popularity_scores,   \* dict: product id -> float
    product_id_to_idx,   \* dict: product id -> row index
    idx_to_product_id,   \* dict: row index -> product id
    np_random_state,     \* the seed last given to the process-wide np.random
    call,                \* the last direct call of recommend_for_product
    pages,               \* the pages a caller walking offsets 0, k, 2k, .. has got
    http,                \* the last /recommend request and its response
    explained,           \* the last direct use of _generate_reason
    codec                \* the last use of encode_cursor / decode_cursor

vars == <<fitted, catalog_df, interactions_df, product_vectors, popularity_scores, product_id_to_idx,
          idx_to_product_id, np_random_state, call, pages, http, explained, codec>>

fit_vars == <<fitted, catalog_df, interactions_df, product_vectors, popularity_scores, product_id_to_idx,
              idx_to_product_id>>

\* The rows a catalog can hold: product_id "a", "a|b", "b", "c", each with a
\* vector of unit length and no negative component, as
\* ProductVectorizer.fit_transform returns them.
Universe ==
    { [product_id |-> <<97>>, product_name |-> "Anvil", brand |-> "acme",
       category |-> "tools", vector |-> <<Rat(1, 1), Rat(0, 1)>>],
      [product_id |-> <<97, 124, 98>>, product_name |-> "Abacus", brand |-> "acme",
       category |-> "toys", vector |-> <<Rat(4, 5), Rat(3, 5)>>],
      [product_id |-> <<98>>, product_name |-> "Ball", brand |-> "zen",
       category |-> "toys", vector |-> <<Rat(5, 13), Rat(12, 13)>>],
      [product_id |-> <<99>>, product_name |-> "Chisel", brand |-> "zen",
       category |-> "tools", vector |-> <<Rat(0, 1), Rat(1, 1)>>] }

UniverseIds == {row.product_id : row \in Universe}

\* An identifier no catalog holds ("zz").
UnknownId == <<122, 122>>

Range(f) == {f[x] : x \in DOMAIN f}

\* The rows of the universe in the order a catalog file lists them: "c",
\* "a|b", "b", "a" (not the order of the identifiers).
FileOrder ==
    <<CHOOSE r \in Universe : r.product_id = <<99>>,
      CHOOSE r \in Universe : r.product_id = <<97, 124, 98>>,
      CHOOSE r \in Universe : r.product_id = <<98>>,
      CHOOSE r \in Universe : r.product_id = <<97>>>>

\* Catalog frames: the first one to four rows of the file.
Catalogs == {SubSeq(FileOrder, 1, n) : n \in 1..Len(FileOrder)}

\* len(frame), frame.iloc[i], frame['product_id']
Iloc(frame, i) == frame[i + 1]
ProductIdColumn(frame) == [i \in 1..Len(frame) |-> frame[i].product_id]

RECURSIVE Dot(_, _)
\* np.dot of two vectors
Dot(u, v) == IF u = <<>> THEN Float(0) ELSE FAdd(FMul(Head(u), Head(v)), Dot(Tail(u), Tail(v)))

RECURSIVE SeriesMax(_, _)
\* Series.max(): the greatest value that is not NaN; NaN when there is none.
SeriesMax(values, best) ==
    IF values = {} THEN best
    ELSE LET v == CHOOSE x \in values : TRUE IN
         SeriesMax(values \ {v}, IF v.nan THEN best
                                 ELSE IF best.nan \/ FGt(v, best) THEN v ELSE best)

\* fit(), lines 43-64.  purchases[p] and views[p] count the interaction rows
\* of product p with event 'purchase' and 'view'; value_counts() holds the
\* products whose count is not zero.  Adding the two Series aligns them on
\* the union of their indices and gives NaN where either has no entry.
PopularityOf(catalog, purchases, views) ==
    LET purchase_counts == {p \in DOMAIN purchases : purchases[p] > 0}
        view_counts     == {p \in DOMAIN views : views[p] > 0}
        index           == purchase_counts \cup view_counts
        total_scores    == [p \in index |->
                               IF p \in purchase_counts /\ p \in view_counts
                               THEN FAdd(FMul(Float(purchases[p]), Float(2)),
                                         FMul(Float(views[p]), Float(1)))
                               ELSE NaN]
        max             == SeriesMax(Range(total_scores), NaN)
        normalized      == IF FGt(max, Float(0))
                           THEN [p \in index |-> FDiv(total_scores[p], max)]
                           ELSE [p \in {} |-> NaN]
        catalog_ids     == Range(ProductIdColumn(catalog))
    IN  [p \in (DOMAIN normalized) \cup catalog_ids |->
            IF p \in DOMAIN normalized THEN normalized[p] ELSE Float(0)]

(***************************************************************************)
(* sorted() / list.sort() with key=(-score, product_id)                    *)
(***************************************************************************)
\* tuple.__lt__ on (float, str) keys: the first position where the two
\* differ (by ==, so a NaN differs from everything) decides, by <.
KeyLt(x, y) ==
    IF ~FEq(x[1], y[1]) THEN FLt(x[1], y[1])
    ELSE IF x[2] # y[2] THEN StrLt(x[2], y[2])
    ELSE FALSE

\* CPython's list.sort for fewer than 64 elements: the leading run is found
\* (and reversed when strictly descending), the rest is inserted by binary
\* search.  An entry is <<key, position>>.
RECURSIVE RunAscending(_, _)
RunAscending(a, n) ==
    IF n < Len(a) /\ ~KeyLt(a[n + 1][1], a[n][1]) THEN RunAscending(a, n + 1) ELSE n

RECURSIVE RunDescending(_, _)
RunDescending(a, n) ==
    IF n < Len(a) /\ KeyLt(a[n + 1][1], a[n][1]) THEN RunDescending(a, n + 1) ELSE n

CountRun(a) ==
    IF KeyLt(a[2][1], a[1][1])
    THEN [n |-> RunDescending(a, 2), descending |-> TRUE]
    ELSE [n |-> RunAscending(a, 2), descending |-> FALSE]

RECURSIVE BinarySearch(_, _, _, _)
BinarySearch(a, pivot, l, r) ==
    IF l >= r THEN l
    ELSE LET p == l + ((r - l) \div 2) IN
         IF KeyLt(pivot[1], a[p + 1][1]) THEN BinarySearch(a, pivot, l, p)
         ELSE BinarySearch(a, pivot, p + 1, r)

RECURSIVE BinarySort(_, _)
BinarySort(a, start) ==
    IF start >= Len(a) THEN a
    ELSE LET pivot == a[start + 1]
             l     == BinarySearch(a, pivot, 0, start)
             moved == ToList([i \in 1..Len(a) |->
                          IF i <= l THEN a[i]
                          ELSE IF i = l + 1 THEN pivot
                          ELSE IF i <= start + 1 THEN a[i - 1]
                          ELSE a[i]])
         IN  BinarySort(moved, start + 1)

ListSort(a) ==
    IF Len(a) < 2 THEN a
    ELSE LET run == CountRun(a)
             a1  == IF run.descending
                    THEN ToList([i \in 1..Len(a) |-> IF i <= run.n THEN a[run.n + 1 - i] ELSE a[i]])
                    ELSE a
         IN  BinarySort(a1, run.n)

\* sorted(range(len(keys)), key=lambda i: keys[i]): 0-based positions.
SortedIndices(keys) ==
    LET a == ListSort(ToList([i \in 1..Len(keys) |-> <<keys[i], i - 1>>]))
    IN  [i \in 1..Len(keys) |-> a[i][2]]

\* The slice taken one element too long: list[lo:hi + 1].
PySliceOneMore(s, lo, hi) ==
    LET n   == Len(s)
        h   == hi + 1
        lo1 == IF lo < 0 THEN (IF lo + n < 0 THEN 0 ELSE lo + n) ELSE (IF lo > n THEN n ELSE lo)
        hi1 == IF h < 0 THEN (IF h + n < 0 THEN 0 ELSE h + n) ELSE (IF h > n THEN n ELSE h)
    IN  SubSeq(s, lo1 + 1, hi1)

\* list[lo:hi] for integers lo and hi: a negative bound counts from the end,
\* and both are clamped to the list.
PySlice(s, lo, hi) ==
    LET n   == Len(s)
        lo1 == IF lo < 0 THEN (IF lo + n < 0 THEN 0 ELSE lo + n) ELSE (IF lo > n THEN n ELSE lo)
        hi1 == IF hi < 0 THEN (IF hi + n < 0 THEN 0 ELSE hi + n) ELSE (IF hi > n THEN n ELSE hi)
    IN  SubSeq(s, lo1 + 1, hi1)

(***************************************************************************)
(* Recommender                                                             *)
(***************************************************************************)
RECURSIVE Join(_)
\* " & ".join(reasons)
Join(reasons) ==
    IF Len(reasons) = 1 THEN reasons[1]
    ELSE reasons[1] \o " & " \o Join(Tail(reasons))

\* _generate_reason with the two 'elif' read as 'if': both labels of a group
\* are appended when the higher threshold is met.
GenerateReasonBothLabels(content_sim, popularity, query_product, candidate_product) ==
    LET r1 == (IF FGe(content_sim, Rat(6, 10)) THEN <<"strong content match">> ELSE <<>>)
              \o (IF FGe(content_sim, Rat(3, 10)) THEN <<"moderate text similarity">> ELSE <<>>)
        r2 == IF query_product.brand = candidate_product.brand
              THEN <<"same brand">> ELSE <<>>
        r3 == IF query_product.category = candidate_product.category
              THEN <<"same category">> ELSE <<>>
        r4 == (IF FGe(popularity, Rat(7, 10)) THEN <<"popular item">> ELSE <<>>)
              \o (IF FGe(popularity, Rat(4, 10)) THEN <<"moderate popularity">> ELSE <<>>)
        fired   == r1 \o r2 \o r3 \o r4
        reasons == IF fired # <<>> THEN fired
                   ELSE IF FGt(content_sim, Float(0)) THEN <<"low content similarity">>
                   ELSE <<"popular fallback">>
    IN  IF reasons # <<>> THEN Join(reasons) ELSE "general recommendation"

\* _generate_reason
GenerateReason(content_sim, popularity, query_product, candidate_product) ==
    LET r1 == IF FGe(content_sim, Rat(6, 10)) THEN <<"strong content match">>
              ELSE IF FGe(content_sim, Rat(3, 10)) THEN <<"moderate text similarity">>
              ELSE <<>>
        r2 == IF query_product.brand = candidate_product.brand
              THEN <<"same brand">> ELSE <<>>
        r3 == IF query_product.category = candidate_product.category
              THEN <<"same category">> ELSE <<>>
        r4 == IF FGe(popularity, Rat(7, 10)) THEN <<"popular item">>
              ELSE IF FGe(popularity, Rat(4, 10)) THEN <<"moderate popularity">>
              ELSE <<>>
        fired   == r1 \o r2 \o r3 \o r4
        reasons == IF fired # <<>> THEN fired
                   ELSE IF FGt(content_sim, Float(0)) THEN <<"low content similarity">>
                   ELSE <<"popular fallback">>
    IN  IF reasons # <<>> THEN Join(reasons) ELSE "general recommendation"

\* _get_content_similarity
GetContentSimilarity(query_idx, candidate_indices) ==
    IF query_idx \notin 0..(Len(product_vectors) - 1)
    THEN [i \in 1..Len(candidate_indices) |-> Float(0)]
    ELSE LET query_vector == product_vectors[query_idx + 1] IN
         ToList([i \in 1..Len(candidate_indices) |->
             Dot(product_vectors[candidate_indices[i] + 1], query_vector)])

\* dict.get(pid, 0.0)
PopularityGet(pid) ==
    IF pid \in DOMAIN popularity_scores THEN popularity_scores[pid] ELSE Float(0)

\* _get_popularity_scores
GetPopularityScores(candidate_ids) ==
    ToList([i \in 1..Len(candidate_ids) |-> PopularityGet(candidate_ids[i])])

\* alpha * content_sims + (1 - alpha) * popularity_scores, per candidate
CombinedScore(alpha, content_sim, popularity) ==
    FAdd(FMul(alpha, content_sim), FMul(FSub(Float(1), alpha), popularity))

\* The candidates of a known product, lines 176-181: every row index but the
\* query's, ascending.
RECURSIVE IndicesExcept(_, _, _)
IndicesExcept(i, n, query_idx) ==
    IF i >= n THEN <<>>
    ELSE (IF i # query_idx THEN <<i>> ELSE <<>>) \o IndicesExcept(i + 1, n, query_idx)

CandidateIndices(query_idx) == IndicesExcept(0, Len(catalog_df), query_idx)

\* sort_keys, lines 197-200; the seed is not consulted.
SortKeys(combined_scores, candidate_ids, seed) ==
    ToList([i \in 1..Len(candidate_ids) |-> <<FNeg(combined_scores[i]), candidate_ids[i]>>])

\* np.random.seed(seed) raises ValueError for a negative seed.  (It also
\* raises above 2**32 - 1, beyond the seeds explored.)
NpSeedOk(seed) == seed >= 0

\* _get_popular_fallback
GetPopularFallback(k, offset, seed) ==
    LET ids            == ProductIdColumn(catalog_df)
        product_scores == ToList([i \in 1..Len(ids) |-> <<ids[i], PopularityGet(ids[i])>>])
        order          == SortedIndices([i \in 1..Len(ids) |->
                              <<FNeg(product_scores[i][2]), product_scores[i][1]>>])
        sorted_scores  == ToList([i \in 1..Len(ids) |-> product_scores[order[i] + 1]])
        paginated      == PySlice(sorted_scores, offset, offset + k)
    IN  [i \in 1..Len(paginated) |->
            [product_id |-> paginated[i][1],
             score      |-> Round3(paginated[i][2]),
             reason     |-> "popular fallback"]]

\* recommend_for_product: the tuple (recommendations, total_available), or
\* raised when line 193 raises.
RecommendForProduct(product_id, k, alpha, offset, diversify, seed) ==
    IF product_id \notin DOMAIN product_id_to_idx
    THEN [raised |-> FALSE,
          items |-> GetPopularFallback(k, offset, seed),
          total_available |-> Len(catalog_df)]
    ELSE IF ~NpSeedOk(seed)
    THEN [raised |-> TRUE, items |-> <<>>, total_available |-> 0]
    ELSE LET query_idx         == product_id_to_idx[product_id]
             query_product     == Iloc(catalog_df, query_idx)
             candidate_indices == CandidateIndices(query_idx)
             candidate_ids     == ToList([i \in 1..Len(candidate_indices) |->
                                      idx_to_product_id[candidate_indices[i]]])
             content_sims      == GetContentSimilarity(query_idx, candidate_indices)
             popularity        == GetPopularityScores(candidate_ids)
             combined_scores   == ToList([i \in 1..Len(candidate_indices) |->
                                      CombinedScore(alpha, content_sims[i], popularity[i])])
             sorted_indices    == SortedIndices(SortKeys(combined_scores, candidate_ids, seed))
             total_available   == Len(sorted_indices)
             paginated_indices == PySlice(sorted_indices, offset, offset + k)
         IN  [raised |-> FALSE,
              items |->
                 [i \in 1..Len(paginated_indices) |->
                     LET idx == paginated_indices[i] + 1 IN
                     [product_id |-> candidate_ids[idx],
                      score      |-> Round3(combined_scores[idx]),
                      reason     |-> GenerateReason(content_sims[idx], popularity[idx],
                                        query_product,
                                        Iloc(catalog_df, candidate_indices[idx]))]],
              total_available |-> total_available]

(***************************************************************************)
(* Inputs                                                                  *)
(***************************************************************************)
\* Interaction logs, by their per-product purchase and view counts: none,
\* views only, one purchase with one or two views.
Profiles == {<<0, 0>>, <<0, 1>>, <<1, 1>>, <<1, 2>>}

InteractionLogs ==
    { [purchases |-> [p \in UniverseIds |->
                         IF p = <<97>> THEN pa[1] ELSE IF p = <<98>> THEN pb[1] ELSE 0],
       views     |-> [p \in UniverseIds |->
                         IF p = <<97>> THEN pa[2] ELSE IF p = <<98>> THEN pb[2] ELSE 0]]
      : pa \in Profiles, pb \in Profiles }

\* An empty interaction log.
NoInteractions == [purchases |-> [p \in UniverseIds |-> 0], views |-> [p \in UniverseIds |-> 0]]

\* alpha: within [0, 1], and one value a direct caller can pass beyond it.
Alphas == {Float(0), Rat(3, 5), Float(1), Float(2)}
ValidAlpha(alpha) == FGe(alpha, Float(0)) /\ FLe(alpha, Float(1))

\* The seeds a caller, or a cursor, can carry: any integer.
Seeds == (-1)..MaxSeed

\* The identifiers a caller asks about: those of the catalog and one it lacks.
RequestIds == Range(ProductIdColumn(catalog_df)) \cup {UnknownId}

NoCall ==
    [made |-> FALSE, raised |-> FALSE, product_id |-> <<>>, k |-> 0, alpha |-> Float(0), offset |-> 0,
     diversify |-> FALSE, seed |-> 0, items |-> <<>>, total_available |-> 0]

NoPages == [walking |-> FALSE, items |-> <<>>]

\* No request in progress.  The fields are those of the request, of the
\* handler's locals and of the response.
NoHttp ==
    [status |-> 0,
     product_id |-> <<>>, k |-> 0, alpha |-> Float(0), has_cursor |-> FALSE,
     cursor |-> <<>>, diversify |-> FALSE,
     followed |-> FALSE, prev_offset |-> 0, prev_page_size |-> 0,
     walking |-> FALSE, requests |-> 0, walk_items |-> <<>>,
     offset |-> 0, seed |-> 0, computed |-> FALSE,
     detail |-> "", error |-> "", product_name |-> "", body_alpha |-> Float(0),
     page_size |-> 0, total_available |-> 0, items |-> <<>>,
     has_next |-> FALSE, next_cursor |-> <<>>]

NoReason ==
    [made |-> FALSE, content_sim |-> Float(0), popularity |-> Float(0),
     query_product |-> <<>>, candidate_product |-> <<>>, reason |-> ""]

NoCodec ==
    [op |-> "none", product_id |-> <<>>, offset |-> 0, seed |-> 0, issued |-> <<>>,
     token |-> <<>>, decoded |-> InvalidCursor]

(***************************************************************************)
(* Init and the serving process                                            *)
(***************************************************************************)
\* Recommender.__init__; importing the module seeds np.random with 0.
Init ==
    /\ fitted = FALSE
    /\ catalog_df = <<>>
    /\ interactions_df = NoInteractions
    /\ product_vectors = <<>>
    /\ popularity_scores = <<>>
    /\ product_id_to_idx = <<>>
    /\ idx_to_product_id = <<>>
    /\ np_random_state = 0
    /\ call = NoCall
    /\ pages = NoPages
    /\ http = NoHttp
    /\ explained = NoReason
    /\ codec = NoCodec

\* fit(catalog_df, interactions_df), then save and load.
Fit(catalog, interactions) ==
    /\ ~fitted
    /\ fitted' = TRUE
    /\ catalog_df' = catalog
    /\ interactions_df' = interactions
    /\ product_vectors' = [i \in 1..Len(catalog) |-> catalog[i].vector]
    /\ product_id_to_idx' =
           [pid \in Range(ProductIdColumn(catalog)) |->
               CHOOSE i \in 0..(Len(catalog) - 1) :
                   /\ catalog[i + 1].product_id = pid
                   /\ \A j \in (i + 1)..(Len(catalog) - 1) : catalog[j + 1].product_id # pid]
    /\ idx_to_product_id' = [i \in 0..(Len(catalog) - 1) |-> catalog[i + 1].product_id]
    /\ popularity_scores' = PopularityOf(catalog, interactions.purchases, interactions.views)
    /\ UNCHANGED <<np_random_state, call, pages, http, codec, explained>>

\* What a call of recommend_for_product leaves in np.random: line 193 runs
\* for a known product only, and reseeds when it does not raise.
SeedAfter(product_id, seed) ==
    IF product_id \in DOMAIN product_id_to_idx /\ NpSeedOk(seed) THEN seed
    ELSE np_random_state

CallRecord(product_id, k, alpha, offset, diversify, seed) ==
    LET r == RecommendForProduct(product_id, k, alpha, offset, diversify, seed) IN
    [made |-> TRUE, raised |-> r.raised, product_id |-> product_id, k |-> k, alpha |-> alpha, offset |-> offset,
     diversify |-> diversify, seed |-> seed, items |-> r.items,
     total_available |-> r.total_available]

\* A direct call, as the tests make it.  A call at offset 0 starts a walk
\* through the pages.
CallRecommend(product_id, k, alpha, offset, diversify, seed) ==
    /\ fitted
    /\ ~call.made
    /\ call' = CallRecord(product_id, k, alpha, offset, diversify, seed)
    /\ np_random_state' = SeedAfter(product_id, seed)
    /\ pages' = IF offset = 0 THEN [walking |-> TRUE, items |-> call'.items] ELSE NoPages
    /\ UNCHANGED <<fit_vars, http, codec, explained>>

\* The caller asks for the next page: same arguments, offset + k.
NextPage ==
    /\ call.made
    /\ ~call.raised
    /\ pages.walking
    /\ call.offset + call.k < call.total_available
    /\ call' = CallRecord(call.product_id, call.k, call.alpha, call.offset + call.k,
                          call.diversify, call.seed)
    /\ np_random_state' = SeedAfter(call.product_id, call.seed)
    /\ pages' = [walking |-> TRUE, items |-> pages.items \o call'.items]
    /\ UNCHANGED <<fit_vars, http, codec, explained>>

\* The caller is done with the result.
Return ==
    /\ call.made
    /\ call' = NoCall
    /\ pages' = NoPages
    /\ UNCHANGED <<fit_vars, np_random_state, http, codec, explained>>

Next ==
    \/ /\ ~fitted
       /\ \E catalog \in Catalogs, interactions \in InteractionLogs :
             Fit(catalog, interactions)
    \/ /\ ~call.made
       /\ \E product_id \in RequestIds, k \in 1..MaxK, alpha \in Alphas,
             offset \in 0..MaxOffset, diversify \in BOOLEAN, seed \in Seeds :
             CallRecommend(product_id, k, alpha, offset, diversify, seed)
    \/ NextPage
    \/ Return

Spec == Init /\ [][Next]_vars

(***************************************************************************)
(* The cursor codec in use: a token is issued, may be altered on its way   *)
(* back, and is decoded                                                    *)
(***************************************************************************)
\* The symbols a character of a token can be.
Symbols == 0..Junk

\* encode_cursor(product_id, offset, seed)
Encode(product_id, offset, seed) ==
    /\ codec.op = "none"
    /\ codec' = [op |-> "issued", product_id |-> product_id, offset |-> offset,
                 seed |-> seed, issued |-> EncodeCursor(product_id, offset, seed),
                 token |-> EncodeCursor(product_id, offset, seed),
                 decoded |-> InvalidCursor]
    /\ UNCHANGED <<fit_vars, np_random_state, call, pages, http, explained>>

\* The holder of the token alters the character at position i.
AlterChar(i, c) ==
    /\ codec.op = "issued"
    /\ i \in 1..Len(codec.token)
    /\ c # codec.token[i]
    /\ codec' = [codec EXCEPT !.op = "altered", !.token = [codec.token EXCEPT ![i] = c]]
    /\ UNCHANGED <<fit_vars, np_random_state, call, pages, http, explained>>

\* The holder appends a character.
AppendChar(c) ==
    /\ codec.op = "issued"
    /\ codec' = [codec EXCEPT !.op = "altered", !.token = Append(codec.token, c)]
    /\ UNCHANGED <<fit_vars, np_random_state, call, pages, http, explained>>

\* The holder keeps the first n characters only.
Truncate(n) ==
    /\ codec.op = "issued"
    /\ n \in 0..(Len(codec.token) - 1)
    /\ codec' = [codec EXCEPT !.op = "altered", !.token = SubSeq(codec.token, 1, n)]
    /\ UNCHANGED <<fit_vars, np_random_state, call, pages, http, explained>>

\* decode_cursor(token)
Decode ==
    /\ codec.op \in {"issued", "altered"}
    /\ codec' = [codec EXCEPT !.op = "decoded", !.decoded = DecodeCursor(codec.token)]
    /\ UNCHANGED <<fit_vars, np_random_state, call, pages, http, explained>>

\* The result is dropped.
Forget ==
    /\ codec.op = "decoded"
    /\ codec' = NoCodec
    /\ UNCHANGED <<fit_vars, np_random_state, call, pages, http, explained>>

CodecNext ==
    \/ /\ codec.op = "none"
       /\ \E product_id \in UniverseIds, offset \in 0..MaxCursorOffset, seed \in Seeds :
             Encode(product_id, offset, seed)
    \/ /\ codec.op = "issued"
       /\ \/ \E i \in 1..Len(codec.token), c \in Symbols : AlterChar(i, c)
          \/ \E c \in Symbols : AppendChar(c)
          \/ \E n \in 0..Len(codec.token) : Truncate(n)
    \/ Decode
    \/ Forget

CodecSpec == Init /\ [][CodecNext]_vars

(***************************************************************************)
(* GET /recommend (src/src/app.py)                                         *)
(***************************************************************************)
\* Query(10, ge=1, le=100) and Query(0.6, ge=0.0, le=1.0)
ValidParams(k, alpha) == k \in 1..100 /\ FGe(alpha, Float(0)) /\ FLe(alpha, Float(1))

\* Lines 40-52 with the decoded product_id not compared with the request's.
ResolveCursorUnchecked(product_id, has_cursor, cursor) ==
    IF ~has_cursor \/ cursor = <<>> THEN [ok |-> TRUE, offset |-> 0, seed |-> 0]
    ELSE LET d == DecodeCursor(cursor) IN
         IF ~d.ok THEN [ok |-> FALSE, offset |-> 0, seed |-> 0]
         ELSE [ok |-> TRUE, offset |-> d.offset, seed |-> d.seed]

\* Lines 40-52: offset and seed default to 0; a cursor that is given and not
\* empty must decode, and to the product_id of the request.
ResolveCursor(product_id, has_cursor, cursor) ==
    IF ~has_cursor \/ cursor = <<>> THEN [ok |-> TRUE, offset |-> 0, seed |-> 0]
    ELSE LET d == DecodeCursor(cursor) IN
         IF ~d.ok \/ d.product_id # product_id THEN [ok |-> FALSE, offset |-> 0, seed |-> 0]
         ELSE [ok |-> TRUE, offset |-> d.offset, seed |-> d.seed]

\* An unknown product_id answered with the popularity page of the engine.
NotFoundAsFallbackPage(req) ==
    LET r == RecommendForProduct(req.product_id, req.k, req.alpha, 0, req.diversify, 0)
    IN  [req EXCEPT !.status = 200, !.computed = TRUE, !.page_size = req.k,
                    !.total_available = r.total_available, !.items = r.items]

\* Lines 54-60: JSONResponse(status_code=404, content={"error": ..})
NotFound(req) == [req EXCEPT !.status = 404, !.error = "product_id not found"]

\* Lines 62-92 for a product of the catalog.  An exception out of
\* recommend_for_product, or a NaN score in the body (which the JSON
\* rendering of the response refuses), ends the request with status 500.
Page(req, offset, seed) ==
    LET product_row == catalog_df[CHOOSE i \in 1..Len(catalog_df) :
                           /\ catalog_df[i].product_id = req.product_id
                           /\ \A j \in 1..(i - 1) : catalog_df[j].product_id # req.product_id]
        r    == RecommendForProduct(req.product_id, req.k, req.alpha, offset,
                                    req.diversify, seed)
        more == offset + req.k < r.total_available
        run  == [req EXCEPT !.offset = offset, !.seed = seed, !.computed = TRUE]
    IN  IF r.raised \/ \E i \in 1..Len(r.items) : r.items[i].score.nan
        THEN [run EXCEPT !.status = 500]
        ELSE [run EXCEPT !.status = 200,
                         !.product_name = product_row.product_name,
                         !.body_alpha = Round3(req.alpha),
                         !.page_size = req.k,
                         !.total_available = r.total_available,
                         !.items = r.items,
                         !.has_next = more,
                         !.next_cursor = IF more
                                         THEN EncodeCursor(req.product_id, offset + req.k, seed)
                                         ELSE <<>>]

\* The endpoint: parameter validation, then the handler.
RecommendResponse(req) ==
    IF ~ValidParams(req.k, req.alpha)
    THEN [req EXCEPT !.status = 422, !.detail = "validation error"]
    ELSE LET c == ResolveCursor(req.product_id, req.has_cursor, req.cursor) IN
         IF ~c.ok THEN [req EXCEPT !.status = 400, !.detail = "Invalid cursor"]
         ELSE IF req.product_id \notin Range(ProductIdColumn(catalog_df)) THEN NotFound(req)
         ELSE Page(req, c.offset, c.seed)

Request(product_id, k, alpha, has_cursor, cursor, diversify) ==
    [NoHttp EXCEPT !.product_id = product_id, !.k = k, !.alpha = alpha,
                   !.has_cursor = has_cursor, !.cursor = cursor, !.diversify = diversify]

\* What the request leaves in np.random.
SeedAfterRequest(response) ==
    IF response.computed /\ response.product_id \in DOMAIN product_id_to_idx
       /\ NpSeedOk(response.seed)
    THEN response.seed ELSE np_random_state

\* The tokens a client can send: none, the empty string, a token of any
\* triple (issued or forged), "A" and the token of "a|1".
CursorArgs ==
    {[has |-> FALSE, token |-> <<>>], [has |-> TRUE, token |-> <<>>],
     [has |-> TRUE, token |-> <<0>>],
     [has |-> TRUE, token |-> B64Encode(Utf8Encode(<<97, Delim, 49>>))]}
    \cup {[has |-> TRUE, token |-> EncodeCursor(id, offset, seed)] :
             id \in RequestIds, offset \in (-1)..MaxCursorOffset, seed \in Seeds}

\* The interaction logs the served engine was fitted on: the empty one, and
\* those with one purchase and one view of product a and every profile of
\* product b.
ApiInteractionLogs ==
    {log \in InteractionLogs :
        log = NoInteractions \/ (log.purchases[<<97>>] = 1 /\ log.views[<<97>>] = 1)}

\* alpha as a query parameter: one the endpoint admits and one it refuses.
ApiAlphas == {Rat(3, 5), Float(2)}

\* A client that sends no cursor starts a walk through the pages; the
\* requests of the walk and the items it has received are counted.
StartWalk(response) ==
    [response EXCEPT !.walking = ~response.has_cursor, !.requests = 1,
                     !.walk_items = response.items]

\* GET /recommend?product_id=..&k=..&alpha=..&cursor=..&diversify=..
Recommend(product_id, k, alpha, cursor_arg, diversify) ==
    /\ fitted
    /\ http.status = 0
    /\ http' = StartWalk(RecommendResponse(Request(product_id, k, alpha, cursor_arg.has,
                                                   cursor_arg.token, diversify)))
    /\ np_random_state' = SeedAfterRequest(http')
    /\ UNCHANGED <<fit_vars, call, pages, codec, explained>>

\* The response to the request that follows `previous`, with what the client
\* remembers of the walk so far.
ContinueWalk(previous, response) ==
    [response EXCEPT !.followed = TRUE, !.prev_offset = previous.offset,
                     !.prev_page_size = previous.page_size,
                     !.walking = previous.walking,
                     !.requests = previous.requests + 1,
                     !.walk_items = previous.walk_items \o response.items]

\* The client asks for the next page with the next_cursor it was given.
FollowCursor ==
    /\ http.status = 200
    /\ http.has_next
    /\ http' = ContinueWalk(http, RecommendResponse(Request(http.product_id, http.k,
                                                            http.alpha, TRUE,
                                                            http.next_cursor,
                                                            http.diversify)))
    /\ np_random_state' = SeedAfterRequest(http')
    /\ UNCHANGED <<fit_vars, call, pages, codec, explained>>

\* The response has been delivered.
Respond ==
    /\ http.status # 0
    /\ http' = NoHttp
    /\ UNCHANGED <<fit_vars, np_random_state, call, pages, codec, explained>>

ApiNext ==
    \/ /\ ~fitted
       /\ \E catalog \in Catalogs, interactions \in ApiInteractionLogs :
             Fit(catalog, interactions)
    \/ /\ http.status = 0
       /\ \E cursor_arg \in CursorArgs, product_id \in RequestIds,
             k \in (0..MaxK) \cup {101}, alpha \in ApiAlphas, diversify \in BOOLEAN :
             Recommend(product_id, k, alpha, cursor_arg, diversify)
    \/ FollowCursor
    \/ Respond

ApiSpec == Init /\ [][ApiNext]_vars

(***************************************************************************)
(* _generate_reason called on its own                                      *)
(***************************************************************************)
\* Similarities and popularities around the thresholds 0.3, 0.6 and 0.4,
\* 0.7; a popularity can be NaN after fit.
ContentSims == {Float(0), Rat(1, 10), Rat(3, 10), Rat(1, 2), Rat(6, 10), Rat(9, 10)}
Popularities == {Float(0), Rat(39, 100), Rat(4, 10), Rat(1, 2), Rat(7, 10), Float(1), NaN}

\* self._generate_reason(content_sim, popularity, query_product, candidate_product)
Explain(content_sim, popularity, query_product, candidate_product) ==
    /\ ~explained.made
    /\ explained' = [made |-> TRUE, content_sim |-> content_sim, popularity |-> popularity,
                     query_product |-> query_product,
                     candidate_product |-> candidate_product,
                     reason |-> GenerateReason(content_sim, popularity, query_product,
                                               candidate_product)]
    /\ UNCHANGED <<fit_vars, np_random_state, call, pages, http, codec>>

\* The caller takes the string.
TakeReason ==
    /\ explained.made
    /\ explained' = NoReason
    /\ UNCHANGED <<fit_vars, np_random_state, call, pages, http, codec>>

ReasonNext ==
    \/ /\ ~explained.made
       /\ \E content_sim \in ContentSims, popularity \in Popularities,
             query_product \in Universe, candidate_product \in Universe :
             Explain(content_sim, popularity, query_product, candidate_product)
    \/ TakeReason

ReasonSpec == Init /\ [][ReasonNext]_vars

(***************************************************************************)
(* Properties of recommend_for_product                                     *)
(***************************************************************************)
CatalogIds == Range(ProductIdColumn(catalog_df))
Returned == call.made /\ ~call.raised
KnownCall == Returned /\ call.product_id \in DOMAIN product_id_to_idx
ColdStartCall == Returned /\ call.product_id \notin DOMAIN product_id_to_idx
WalkComplete == pages.walking /\ call.offset + call.k >= call.total_available
ItemIds(items) == {items[i].product_id : i \in 1..Len(items)}
InUnitInterval(x) == FGe(x, Float(0)) /\ FLe(x, Float(1))
RowOf(pid) == Iloc(catalog_df, product_id_to_idx[pid])

\* The combined score of candidate cand for query item q, in full precision.
ScoreOf(q, cand, alpha) ==
    CombinedScore(alpha, Dot(RowOf(cand).vector, RowOf(q).vector), PopularityGet(cand))

\* C1: for a known query item, alpha in [0,1] and k >= 1, the pages that
\* recommend_for_product returns at offsets 0, k, 2k, .. up to
\* total_available, concatenated, hold every catalog item but the query item
\* exactly once, in the order of one call with k = total_available; and
\* total_available is the catalog size minus 1.
PaginationConsistency ==
    (KnownCall /\ WalkComplete /\ ValidAlpha(call.alpha) /\ call.k >= 1) =>
        /\ call.total_available = Len(catalog_df) - 1
        /\ Len(pages.items) = call.total_available
        /\ ItemIds(pages.items) = CatalogIds \ {call.product_id}
        /\ pages.items =
               RecommendForProduct(call.product_id, call.total_available, call.alpha,
                                   0, call.diversify, call.seed).items

\* A walk of a three-candidate ordering in pages of two has ended.
PaginationWitness ==
    /\ KnownCall /\ WalkComplete /\ ValidAlpha(call.alpha)
    /\ call.k = 2 /\ call.offset = 2 /\ call.total_available = 3
    /\ Len(pages.items) = 3

\* C6: for valid (item, alpha in [0,1], k in [1,100], offset >= 0) and every
\* fitted state, the list recommend_for_product returns has at most k
\* entries and every score is a number in [0,1].
ScoresInUnitInterval ==
    (Returned /\ ValidAlpha(call.alpha) /\ call.k \in 1..100 /\ call.offset >= 0) =>
        /\ Len(call.items) <= call.k
        /\ \A i \in 1..Len(call.items) : InUnitInterval(call.items[i].score)

\* C7: for a known query item the returned entries are in strict order of
\* combined score descending, then identifier ascending: of two entries the
\* earlier has the greater score, or the same score and the lesser id.
RankedByScoreThenId ==
    (KnownCall /\ ValidAlpha(call.alpha)) =>
        \A i, j \in 1..Len(call.items) :
            i < j =>
                LET a  == call.items[i].product_id
                    b  == call.items[j].product_id
                    sa == ScoreOf(call.product_id, a, call.alpha)
                    sb == ScoreOf(call.product_id, b, call.alpha)
                IN  FGt(sa, sb) \/ (FEq(sa, sb) /\ StrLt(a, b))

\* C8: for an unknown query item and catalog size N the call returns
\* min(k, N - offset) entries of the whole catalog in order of popularity
\* descending then identifier ascending, each scored with its popularity and
\* reasoned "popular fallback", and total_available is N.
ColdStartByPopularity ==
    (ColdStartCall /\ call.k >= 1 /\ call.offset \in 0..Len(catalog_df)) =>
        LET N == Len(catalog_df) IN
        /\ call.total_available = N
        /\ Len(call.items) = (IF call.k < N - call.offset THEN call.k ELSE N - call.offset)
        /\ ItemIds(call.items) \subseteq CatalogIds
        /\ \A i \in 1..Len(call.items) :
               /\ call.items[i].reason = "popular fallback"
               /\ FEq(call.items[i].score, PopularityGet(call.items[i].product_id))
        /\ \A i, j \in 1..Len(call.items) :
               i < j =>
                   LET a  == call.items[i].product_id
                       b  == call.items[j].product_id
                   IN  \/ FGt(PopularityGet(a), PopularityGet(b))
                       \/ (FEq(PopularityGet(a), PopularityGet(b)) /\ StrLt(a, b))

\* C10: the result depends on (product_id, alpha, k, offset) and the fitted
\* state only: the call has the same outcome, items and total_available
\* under any other integer seed a cursor can carry and either value of the
\* diversify flag.
SeedIndependence ==
    call.made =>
        \A seed2 \in Seeds, diversify2 \in BOOLEAN :
            LET r == RecommendForProduct(call.product_id, call.k, call.alpha, call.offset,
                                         diversify2, seed2)
            IN  /\ r.raised = call.raised
                /\ r.items = call.items
                /\ r.total_available = call.total_available

\* Every popularity of the catalog is a number in [0,1].
PopularitiesInRange == \A p \in CatalogIds : InUnitInterval(PopularityGet(p))

\* C15: called with alpha outside [0,1], recommend_for_product clamps: with
\* content similarity and popularity both in [0,1] every returned score is
\* in [0,1].
ScoresClampedForAnyAlpha ==
    (Returned /\ ~ValidAlpha(call.alpha) /\ PopularitiesInRange) =>
        \A i \in 1..Len(call.items) : InUnitInterval(call.items[i].score)

\* C13: no call of recommend_for_product changes state that outlives it:
\* the catalog, the item vectors, the popularity map, the id/index mappings
\* and the state of the process-wide random generator stay as fit left them.
SharedStateUnchanged ==
    [][fitted => /\ catalog_df' = catalog_df
                 /\ product_vectors' = product_vectors
                 /\ popularity_scores' = popularity_scores
                 /\ product_id_to_idx' = product_id_to_idx
                 /\ idx_to_product_id' = idx_to_product_id
                 /\ np_random_state' = np_random_state]_vars

(***************************************************************************)
(* Properties of fit                                                       *)
(***************************************************************************)
\* 2 * purchase_count + view_count of product p in the log fit() was given.
WeightedCount(p) == 2 * interactions_df.purchases[p] + interactions_df.views[p]

\* The greatest weighted count of the log.
MaxWeightedCount ==
    CHOOSE m \in {WeightedCount(p) : p \in UniverseIds} :
        \A p \in UniverseIds : WeightedCount(p) <= m

\* C11: after fit, popularity_scores has an entry for every catalog item;
\* the entry is (2 * purchase_count + view_count) / max of that sum, and 0.0
\* for an item the log does not mention; every value is a number in [0,1];
\* and the greatest value over the catalog's items is exactly 1.0 unless all
\* are 0.0.
PopularityInvariant ==
    fitted =>
        /\ \A p \in CatalogIds :
               /\ p \in DOMAIN popularity_scores
               /\ InUnitInterval(popularity_scores[p])
               /\ FEq(popularity_scores[p],
                      IF WeightedCount(p) = 0 THEN Float(0)
                      ELSE Rat(WeightedCount(p), MaxWeightedCount))
        /\ \/ \A p \in CatalogIds : FEq(popularity_scores[p], Float(0))
           \/ \E p \in CatalogIds : FEq(popularity_scores[p], Float(1))

(***************************************************************************)
(* Properties of _generate_reason                                          *)
(***************************************************************************)
\* The six labels in their fixed order.
ReasonLabels ==
    <<"strong content match", "moderate text similarity", "same brand", "same category",
      "popular item", "moderate popularity">>

\* Label i fires for the arguments the call was given.
LabelFires(i) ==
    LET sim == explained.content_sim
        pop == explained.popularity
    IN  CASE i = 1 -> FGe(sim, Rat(6, 10))
          [] i = 2 -> ~FGe(sim, Rat(6, 10)) /\ FGe(sim, Rat(3, 10))
          [] i = 3 -> explained.query_product.brand = explained.candidate_product.brand
          [] i = 4 -> explained.query_product.category = explained.candidate_product.category
          [] i = 5 -> FGe(pop, Rat(7, 10))
          [] i = 6 -> ~FGe(pop, Rat(7, 10)) /\ FGe(pop, Rat(4, 10))

RECURSIVE JoinFired(_)
\* The labels among the first n that fire, joined with " & ".
JoinFired(n) ==
    IF n = 0 THEN ""
    ELSE LET before == JoinFired(n - 1) IN
         IF ~LabelFires(n) THEN before
         ELSE IF before = "" THEN ReasonLabels[n]
         ELSE before \o " & " \o ReasonLabels[n]

\* C12: _generate_reason returns a non-empty string: the " & "-join, in the
\* fixed order, of exactly the labels that fire; when none fires, "low
\* content similarity" if sim > 0 and "popular fallback" otherwise.  The two
\* labels of group 1, and of group 4, never fire together.
ReasonIsJoinOfFiredLabels ==
    explained.made =>
        /\ explained.reason # ""
        /\ ~(LabelFires(1) /\ LabelFires(2))
        /\ ~(LabelFires(5) /\ LabelFires(6))
        /\ explained.reason =
               IF \E i \in 1..Len(ReasonLabels) : LabelFires(i)
               THEN JoinFired(Len(ReasonLabels))
               ELSE IF FGt(explained.content_sim, Float(0)) THEN "low content similarity"
               ELSE "popular fallback"

\* A label of each group fired at once.
ReasonWitness ==
    /\ explained.made
    /\ explained.reason = "strong content match & same brand & same category & popular item"

(***************************************************************************)
(* Properties of the cursor codec                                          *)
(***************************************************************************)
\* C3: decode_cursor(encode_cursor(id, offset, seed)) is (id, offset, seed)
\* for every identifier a catalog can hold, offset >= 0 and integer seed.
CursorRoundTrip ==
    (codec.op = "decoded" /\ codec.token = codec.issued /\ codec.offset >= 0) =>
        codec.decoded = [ok |-> TRUE, product_id |-> codec.product_id,
                         offset |-> codec.offset, seed |-> codec.seed]

\* C4: decode_cursor raises on every token that differs from the token
\* encode_cursor issued; it never returns a triple for one.
TamperedTokenRejected ==
    (codec.op = "decoded" /\ codec.token # codec.issued) => ~codec.decoded.ok

(***************************************************************************)
(* Properties of GET /recommend                                            *)
(***************************************************************************)
Answered == http.status # 0
Admitted == Answered /\ ValidParams(http.k, http.alpha)
CursorGiven == http.has_cursor /\ http.cursor # <<>>

\* C2: in a 200 response next_cursor is absent when offset + k >=
\* total_available; otherwise it is present and decode_cursor gives the
\* request's product_id, offset + k and the same seed, and the request that
\* follows it reports the offset of the previous page plus its page_size.
NextCursorContract ==
    http.status = 200 =>
        /\ http.offset + http.k >= http.total_available => ~http.has_next
        /\ http.offset + http.k < http.total_available =>
               /\ http.has_next
               /\ DecodeCursor(http.next_cursor) =
                      [ok |-> TRUE, product_id |-> http.product_id,
                       offset |-> http.offset + http.k, seed |-> http.seed]
        /\ http.followed => http.offset = http.prev_offset + http.prev_page_size

\* C5: a request the parameter validation admits, with a cursor that decodes
\* to another product_id than the request's, is answered 400 "Invalid
\* cursor"; recommend_for_product is not called and the cursor's offset and
\* seed are not taken over.
CursorMismatchRejected ==
    (Admitted /\ CursorGiven /\ DecodeCursor(http.cursor).ok
       /\ DecodeCursor(http.cursor).product_id # http.product_id) =>
        /\ http.status = 400
        /\ http.detail = "Invalid cursor"
        /\ ~http.computed
        /\ http.items = <<>>
        /\ http.offset = 0 /\ http.seed = 0

\* A request for a catalog product was refused for a well-formed cursor of
\* another catalog product, with an offset and a seed other than the defaults.
CursorMismatchWitness ==
    /\ http.status = 400
    /\ http.product_id \in CatalogIds
    /\ CursorGiven
    /\ DecodeCursor(http.cursor).ok
    /\ DecodeCursor(http.cursor).product_id \in CatalogIds \ {http.product_id}
    /\ DecodeCursor(http.cursor).offset = 1
    /\ DecodeCursor(http.cursor).seed = 1

\* C9 as stated: every admitted request whose product_id is not in the
\* catalog is answered 404 with an "error" field that says "not found", and
\* no page.
NotFoundForUnknownId ==
    (Admitted /\ http.product_id \notin CatalogIds) =>
        /\ http.status = 404
        /\ http.error = "product_id not found"
        /\ http.items = <<>>

\* C9, amended: an admitted request whose product_id is not in the catalog
\* is answered 404 with the error "product_id not found" and no page when it
\* has no cursor, an empty cursor, or a cursor that decodes to that same
\* product_id; with any other cursor it is answered 400 "Invalid cursor".
\* recommend_for_product is called in neither case.
NotFoundUnlessCursorRejected ==
    (Admitted /\ http.product_id \notin CatalogIds) =>
        /\ ~http.computed
        /\ http.items = <<>>
        /\ IF CursorGiven => (/\ DecodeCursor(http.cursor).ok
                              /\ DecodeCursor(http.cursor).product_id = http.product_id)
           THEN http.status = 404 /\ http.error = "product_id not found"
           ELSE http.status = 400 /\ http.detail = "Invalid cursor"

\* An unknown product_id was asked for with a cursor of its own and answered
\* 404.
NotFoundWitness ==
    /\ http.status = 404
    /\ http.product_id \notin CatalogIds
    /\ CursorGiven
    /\ DecodeCursor(http.cursor).ok

\* C14: a cursor whose decoded offset is negative is rejected with 400
\* "Invalid cursor": no page is sliced at a negative offset and the offset
\* field of a response is never negative.
NegativeOffsetRejected ==
    /\ (Admitted /\ CursorGiven /\ DecodeCursor(http.cursor).ok
          /\ DecodeCursor(http.cursor).offset < 0) =>
           http.status = 400 /\ ~http.computed
    /\ http.status = 200 => http.offset >= 0

\* C16: a client that starts without a cursor on a product of the catalog
\* and follows next_cursor is answered 200 every time, at the offsets 0, k,
\* 2k, ..; the response without next_cursor is the one of request number
\* ceil(total_available / k) (the first one when total_available is 0), and
\* by then every candidate has been received exactly once.
CursorWalkCompletes ==
    (Admitted /\ http.walking /\ http.product_id \in CatalogIds) =>
        /\ http.status = 200
        /\ http.offset = (http.requests - 1) * http.k
        /\ ~http.has_next =>
               /\ http.requests = IF http.total_available = 0 THEN 1
                                  ELSE (http.total_available + http.k - 1) \div http.k
               /\ Len(http.walk_items) = http.total_available
               /\ ItemIds(http.walk_items) = CatalogIds \ {http.product_id}

=============================================================================
